---- MODULE Spec2Model ----
(***************************************************************************)
(* Verification model of the epidemic simulation engine of the             *)
(* communicable-disease dashboard:                                         *)
(*   - the effective reproduction number and the herd immunity threshold   *)
(*     (1_Herd_Immunity.py, pages/3_Vaccine_Impact.py,                     *)
(*     pages/4_Spread_Visualization.py),                                   *)
(*   - the transmission tree generator generate_tree,                      *)
(*   - the discrete-time SEIR loop,                                        *)
(*   - the generation-by-generation growth series,                         *)
(*   - the hierarchical and radial layouts of the tree,                    *)
(*   - the generation counters kept in st.session_state.                   *)
(* Real numbers are exact rationals <<numerator, denominator>> with a      *)
(* positive denominator; the SEIR compartments are whole persons.          *)
(***************************************************************************)
EXTENDS Integers, Sequences, FiniteSets, TLC

VARIABLES
    \* ---- the value handed from the pages to the simulations
    Re,                 \* effective reproduction number, a rational
    \* ---- generate_tree: parameters
    max_gen, superspreader_pct, vacc_pct, max_nodes,
    \* ---- generate_tree: locals
    nodes,              \* G.nodes: id -> [generation, parent, vacc, super]
    edges,              \* G.edges: set of <<parent, child>>
    node_id,            \* next id to hand out
    current,            \* frontier being expanded
    next_gen,           \* frontier being built
    gen,                \* the outer loop's generation
    pidx,               \* position of "for parent in current"
    is_super, newR,     \* the draw and the offspring count of the current parent
    k,                  \* iterations done of "for _ in range(newR)"
    tpc,                \* control point of generate_tree
    draws,              \* the outcomes of np.random.rand() < p, as consumed
    twin,               \* a second call with the same parameters and draws
    \* ---- the SEIR loop: sliders and lists
    incubation, infectious_period, days,
    S, E, I, R,         \* one entry per day, day 0 first
    spc,                \* control point of the SEIR loop
    \* ---- the pages' reproduction numbers
    page,               \* the script that ran
    R0,                 \* baseline R0, a rational
    coverage,           \* vaccination coverage, percent
    vacc_eff, mask_eff, dist_eff,   \* effectiveness sliders, percent
    herd_threshold,     \* herd immunity threshold, percent, a rational
    above_threshold,    \* 3_Vaccine_Impact: coverage >= herd_threshold
    outbreak_controlled, \* 1_Herd_Immunity: Re < 1
    \* ---- the generation-by-generation growth series
    generations,        \* number of generations charted
    infected,           \* the list "infected", generation 0 first
    growth_g,           \* the loop variable g
    gpc,                \* control point of the growth loop
    \* ---- the layout of the returned tree
    layout_mode,        \* the layout that ran: "none" before
    horiz, vert,        \* spacing sliders of the hierarchical layout, rationals
    radial_scale,       \* scale slider of the radial layout, a rational
    pos,                \* node id -> position
    \* ---- pages/4_Spread_Visualization.py: widgets and session state
    mode,               \* the "Choose visualization mode" selectbox
    animation_mode,     \* the "Animation" radio of the Node Tree view
    play,               \* the "Play" checkbox of Auto-Play
    clicked,            \* "Next Generation" was clicked: true for one run
    anim_gen,           \* st.session_state.anim_gen
    tree_gen,           \* st.session_state.tree_gen
    rpc                 \* where the page script is

treeVars == <<max_gen, superspreader_pct, vacc_pct, max_nodes, nodes, edges,
              node_id, current, next_gen, gen, pidx, is_super, newR, k, tpc,
              draws, twin>>

seirVars == <<incubation, infectious_period, days, S, E, I, R, spc>>

reproVars == <<page, R0, coverage, vacc_eff, mask_eff, dist_eff,
               herd_threshold, above_threshold, outbreak_controlled>>

growthVars == <<generations, infected, growth_g, gpc>>

\* the state of the pages' views other than the tree, the SEIR chart and the
\* reproduction numbers
layoutVars == <<layout_mode, horiz, vert, radial_scale, pos>>

sessionVars == <<mode, animation_mode, play, clicked, anim_gen, tree_gen, rpc>>

viewVars == <<growthVars, layoutVars, sessionVars>>

vars == <<Re, treeVars, seirVars, reproVars, viewVars>>

----------------------------------------------------------------------------
(* Bounds of the model *)

\* largest max_gen a call is made with
MaxGen == 3
\* largest max_nodes a call is made with
MaxBudget == 7
\* the longest SEIR run lasts MinDays + ExtraDays days
ExtraDays == 10
\* the SEIR loop is followed while |S| and |I| are at most CapFactor * N
CapFactor == 2
\* largest number of generations a growth series is built for
MaxGenerations == 5

----------------------------------------------------------------------------
(* Rational arithmetic *)

Rat(n, d) == <<n, d>>

RatLT(a, b) == a[1] * b[2] < b[1] * a[2]

RatLE(a, b) == a[1] * b[2] <= b[1] * a[2]

RatEQ(a, b) == a[1] * b[2] = b[1] * a[2]

RatMul(a, b) == <<a[1] * b[1], a[2] * b[2]>>

\* 1 - a
RatOneMinus(a) == <<a[2] - a[1], a[2]>>

\* 1 / a, for a > 0
RatInv(a) == <<a[2], a[1]>>

\* p / 100
Percent(p) == <<p, 100>>

RatMax(a, b) == IF RatLT(a, b) THEN b ELSE a

RatAdd(a, b) == <<a[1] * b[2] + b[1] * a[2], a[2] * b[2]>>

RatNeg(a) == <<-a[1], a[2]>>

Max(a, b) == IF a >= b THEN a ELSE b

\* Python's int(x * m) for a rational x >= 0 and an integer m >= 0:
\* truncation toward zero.
IntOfProduct(x, m) == (x[1] * m) \div x[2]

\* Python's round(x * m) for a rational x >= 0: to the nearest integer,
\* a tie going to the even neighbour.
PyRoundOfProduct(x, m) ==
    LET n == x[1] * m
        d == x[2]
        q == n \div d
        r == n % d
    IN  IF 2 * r < d THEN q
        ELSE IF 2 * r > d THEN q + 1
        ELSE IF q % 2 = 0 THEN q ELSE q + 1

----------------------------------------------------------------------------
(* The pages' reproduction numbers                                         *)
(* (1_Herd_Immunity.py 36-85, pages/3_Vaccine_Impact.py 73-128,            *)
(* pages/4_Spread_Visualization.py 64-80)                                  *)

\* disease_r0 of 3_Vaccine_Impact.py, in tenths
DiseaseR0Tenths == {150, 120, 60, 100, 30, 13, 20}

\* the R0 slider: 1.0 to 20.0 in steps of 0.1, in tenths
SliderR0Tenths == 10..200

\* the coverage slider (and every preset): 0 to 100 percent
CoverageValues == 0..100

\* Values of the three effectiveness sliders (0 to 100) the model tries.
EffectValues == {0, 20, 30, 50, 90, 100}

HerdThresholdPercent_NoComplement(r0) == RatMul(RatInv(r0), Rat(100, 1))

\* herd_threshold = (1 - 1 / R0) * 100
HerdThresholdPercent(r0) == RatMul(RatOneMinus(RatInv(r0)), Rat(100, 1))

\* Re = R0 * (1 - coverage / 100)
CoverageRe(r0, cov) == RatMul(r0, RatOneMinus(Percent(cov)))

\* Re = R0_base * (1 - vacc_eff/100) * (1 - mask_eff/100) * (1 - dist_eff/100)
\* Re = max(0.1, Re)
CompositeRe(r0, v, m, d) ==
    RatMax(Rat(1, 10),
           RatMul(RatMul(RatMul(r0, RatOneMinus(Percent(v))),
                         RatOneMinus(Percent(m))),
                  RatOneMinus(Percent(d))))

\* no page script has run
ReproIdle ==
    /\ page = "none"
    /\ R0 = Rat(1, 1)
    /\ coverage = 0
    /\ vacc_eff = 0
    /\ mask_eff = 0
    /\ dist_eff = 0
    /\ herd_threshold = Rat(0, 1)
    /\ above_threshold = FALSE
    /\ outbreak_controlled = FALSE

\* 1_Herd_Immunity.py: HIT, Re and the "Re < 1" interpretation
HerdImmunityPage ==
    /\ page = "none"
    /\ \E r \in SliderR0Tenths, cov \in CoverageValues :
         /\ R0' = Rat(r, 10)
         /\ coverage' = cov
         /\ herd_threshold' = HerdThresholdPercent(Rat(r, 10))
         /\ Re' = CoverageRe(Rat(r, 10), cov)
         /\ outbreak_controlled' = RatLT(CoverageRe(Rat(r, 10), cov), Rat(1, 1))
    /\ page' = "herd_immunity"
    /\ UNCHANGED <<vacc_eff, mask_eff, dist_eff, above_threshold>>
    /\ UNCHANGED <<treeVars, seirVars, viewVars>>

\* 3_Vaccine_Impact.py, tab 1: herd_threshold, its status, and the Re that
\* tabs 2 and 3 hand to the SEIR loop and to generate_tree
VaccineImpactPage ==
    /\ page = "none"
    /\ \E r \in DiseaseR0Tenths, cov \in CoverageValues :
         /\ R0' = Rat(r, 10)
         /\ coverage' = cov
         /\ herd_threshold' = HerdThresholdPercent(Rat(r, 10))
         /\ above_threshold' =
                RatLE(HerdThresholdPercent(Rat(r, 10)), Rat(cov, 1))
         /\ Re' = CoverageRe(Rat(r, 10), cov)
    /\ page' = "vaccine_impact"
    /\ UNCHANGED <<vacc_eff, mask_eff, dist_eff, outbreak_controlled>>
    /\ UNCHANGED <<treeVars, seirVars, viewVars>>

\* 4_Spread_Visualization.py: the composite Re, floored at 0.1
SpreadVisualizationPage ==
    /\ page = "none"
    /\ \E r \in SliderR0Tenths, v \in EffectValues, m \in EffectValues,
          d \in EffectValues :
         /\ R0' = Rat(r, 10)
         /\ vacc_eff' = v
         /\ mask_eff' = m
         /\ dist_eff' = d
         /\ Re' = CompositeRe(Rat(r, 10), v, m, d)
    /\ page' = "spread_visualization"
    /\ UNCHANGED <<coverage, herd_threshold, above_threshold,
                   outbreak_controlled>>
    /\ UNCHANGED <<treeVars, seirVars, viewVars>>

ReproStep ==
    \/ HerdImmunityPage
    \/ VaccineImpactPage
    \/ SpreadVisualizationPage

----------------------------------------------------------------------------
(* The SEIR loop  (pages/4_Spread_Visualization.py 413-435, the same loop  *)
(* in pages/3_Vaccine_Impact.py 196-219).  The compartments are whole      *)
(* persons and every flow is truncated to a whole number of persons.       *)

N == 1000000

I0 == 10

E0 == 5

S0 == N - I0 - E0

\* the shortest simulation the duration slider allows
MinDays == 30

\* Values of Re the loop is run with, in tenths (0 arises in
\* 3_Vaccine_Impact.py at 100% coverage).
SeirReTenths == {0, 1, 9, 15, 30, 50, 100, 200}

\* Values of the incubation slider (1 to 10) the model tries.
IncubationValues == {1, 4, 10}

\* Values of the infectious-period slider (1 to 14, 1 to 20 in
\* 3_Vaccine_Impact.py) the model tries.
InfectiousValues == {1, 6, 14, 20}

Abs(x) == IF x >= 0 THEN x ELSE -x

Sign(x) == IF x >= 0 THEN 1 ELSE -1

\* a / b truncated toward zero, b > 0
TruncDiv(a, b) == Sign(a) * (Abs(a) \div b)

\* beta = Re / infectious_period
Beta(re, ip) == <<re[1], re[2] * ip>>

Sigma_NotInverted(inc) == <<inc, 1>>

\* sigma = 1 / incubation
Sigma(inc) == <<1, inc>>

\* gamma = 1 / infectious_period
Gamma(ip) == <<1, ip>>

\* rate * a * b / N for a, b >= 0, truncated; a * b is formed in base 1000
\* limbs so that no intermediate value leaves 32 bits (N = 1000 * 1000).
ScaledProductOverN(rate, a, b) ==
    LET a1 == a \div 1000
        a0 == a % 1000
        b1 == b \div 1000
        b0 == b % 1000
        mid == a1 * b0 + a0 * b1
        low == (mid % 1000) * 1000 + a0 * b0
        hi == a1 * b1 + (mid \div 1000) + (low \div N)
        lo == low % N
    IN  (rate[1] * hi + ((rate[1] * lo) \div N)) \div rate[2]

\* new_E = beta * S[-1] * I[-1] / N
NewExposed(beta, s, i) ==
    Sign(s) * Sign(i) * ScaledProductOverN(beta, Abs(s), Abs(i))

\* new_I = sigma * E[-1]
NewInfectious(sigma, e) == TruncDiv(sigma[1] * e, sigma[2])

\* new_R = gamma * I[-1]
NewRecovered(gamma, i) == TruncDiv(gamma[1] * i, gamma[2])

SusceptibleNext_Kept(s, new_E) == s

\* S[-1] - new_E
SusceptibleNext(s, new_E) == s - new_E

Last(seq) == seq[Len(seq)]

\* the values the limb arithmetic of a day's update can take
InRange == Abs(Last(S)) <= CapFactor * N /\ Abs(Last(I)) <= CapFactor * N

\* the SEIR loop is not running
SeirIdle ==
    /\ incubation = 1
    /\ infectious_period = 1
    /\ days = 0
    /\ S = <<S0>>
    /\ E = <<E0>>
    /\ I = <<I0>>
    /\ R = <<0>>
    /\ spc = "idle"

\* the sliders are read and S, E, I, R = [S0], [E0], [I0], [0]
SeirStart ==
    /\ Re \in {Rat(t, 10) : t \in SeirReTenths}
    /\ incubation \in IncubationValues
    /\ infectious_period \in InfectiousValues
    /\ days \in {MinDays, MinDays + ExtraDays}
    /\ S = <<S0>>
    /\ E = <<E0>>
    /\ I = <<I0>>
    /\ R = <<0>>
    /\ spc = "loop"

\* one iteration of "for t in range(days)"
SeirDay ==
    /\ spc = "loop"
    /\ Len(S) - 1 < days
    /\ InRange
    /\ LET new_E == NewExposed(Beta(Re, infectious_period), Last(S), Last(I))
           new_I == NewInfectious(Sigma(incubation), Last(E))
           new_R == NewRecovered(Gamma(infectious_period), Last(I))
       IN  /\ S' = Append(S, SusceptibleNext(Last(S), new_E))
           /\ E' = Append(E, Last(E) + new_E - new_I)
           /\ I' = Append(I, Last(I) + new_I - new_R)
           /\ R' = Append(R, Last(R) + new_R)
    /\ UNCHANGED <<Re, incubation, infectious_period, days, spc>>
    /\ UNCHANGED <<treeVars, reproVars, viewVars>>

\* the loop is exhausted: df = pd.DataFrame({"S": S, "E": E, "I": I, "R": R})
SeirDone ==
    /\ spc = "loop"
    /\ Len(S) - 1 = days
    /\ spc' = "charted"
    /\ UNCHANGED <<Re, incubation, infectious_period, days, S, E, I, R>>
    /\ UNCHANGED <<treeVars, reproVars, viewVars>>

\* the compartments have left the range the model follows (the floats of the
\* code run on toward inf and nan from here)
SeirOutOfRange ==
    /\ spc = "loop"
    /\ Len(S) - 1 < days
    /\ ~InRange
    /\ spc' = "out_of_range"
    /\ UNCHANGED <<Re, incubation, infectious_period, days, S, E, I, R>>
    /\ UNCHANGED <<treeVars, reproVars, viewVars>>

SeirStep ==
    \/ SeirDay
    \/ SeirDone
    \/ SeirOutOfRange

----------------------------------------------------------------------------
(* generate_tree  (pages/4_Spread_Visualization.py 191-229, the same      *)
(* function in pages/3_Vaccine_Impact.py 261-296)                          *)

\* parent=None of the root
NoParent == -1

\* The outcomes of "np.random.rand() < pct / 100" with rand() in [0, 1).
Draw(pct) == {b \in BOOLEAN : (b => pct > 0) /\ (~b => pct < 100)}

SuperMultiplier(super) == IF super THEN 3 ELSE 1

EffectiveR_NoFloor(re, super) == IntOfProduct(re, SuperMultiplier(super))

\* newR = int(Re * (3 if is_super else 1)); newR = max(1, newR)
EffectiveR(re, super) == Max(1, IntOfProduct(re, SuperMultiplier(super)))

BudgetExceeded_OffByTwo(id, budget) == id > budget + 1

\* if node_id > max_nodes: return G
BudgetExceeded(id, budget) == id > budget

NewNode_ParentGeneration(g, parent, vacc, super) ==
    [generation |-> g - 1, parent |-> parent, vacc |-> vacc, super |-> super]

\* the attributes add_node gives a node
NewNode(g, parent, vacc, super) ==
    [generation |-> g, parent |-> parent, vacc |-> vacc, super |-> super]

NewEdge_FromPrevious(parent, child) == <<child - 1, child>>

\* G.add_edge(parent, node_id)
NewEdge(parent, child) == <<parent, child>>

GenerationsLeft_OneMore(g, last) == g <= last + 1

\* for gen in range(1, max_gen + 1): gen is still in the range
GenerationsLeft(g, last) == g <= last

\* Values of Re a call is made with, in tenths.
TreeReTenths == {0, 1, 9, 10, 15, 20, 27}

\* one consumed outcome of "np.random.rand() < p"
SuperDraw(b) == [kind |-> "super", value |-> b]

VaccDraw(b) == [kind |-> "vacc", value |-> b]

\* the locals of the call as one record
ThisRun ==
    [nodes |-> nodes, edges |-> edges, node_id |-> node_id,
     current |-> current, next_gen |-> next_gen, gen |-> gen, pidx |-> pidx,
     is_super |-> is_super, newR |-> newR, k |-> k, tpc |-> tpc,
     read |-> Len(draws)]

\* One step of a second call of generate_tree with the same parameters, which
\* takes the outcome of each np.random.rand() it reaches from the sequence
\* seq, in order; t.read outcomes are consumed so far.
SecondRunStep(t, seq) ==
    LET parent == t.current[t.pidx]
        d == seq[t.read + 1].value
    IN  CASE t.tpc = "gen_loop" ->
               IF GenerationsLeft(t.gen, max_gen)
               THEN [t EXCEPT !.next_gen = <<>>, !.pidx = 1,
                              !.tpc = "parent_loop"]
               ELSE [t EXCEPT !.tpc = "return_end"]
          [] t.tpc = "parent_loop" ->
               IF t.pidx > Len(t.current)
               THEN [t EXCEPT !.current = t.next_gen, !.gen = @ + 1,
                              !.tpc = "gen_loop"]
               ELSE IF t.nodes[parent].vacc
               THEN [t EXCEPT !.pidx = @ + 1]
               ELSE IF t.read >= Len(seq)
               THEN t
               ELSE [t EXCEPT !.is_super = d, !.newR = EffectiveR(Re, d),
                              !.k = 0, !.tpc = "child_loop", !.read = @ + 1]
          [] t.tpc = "child_loop" ->
               IF t.k >= t.newR
               THEN [t EXCEPT !.pidx = @ + 1, !.tpc = "parent_loop"]
               ELSE IF BudgetExceeded(t.node_id, max_nodes)
               THEN [t EXCEPT !.tpc = "return_budget"]
               ELSE IF t.read >= Len(seq)
               THEN t
               ELSE [t EXCEPT
                       !.nodes = @ @@ (t.node_id :>
                                   NewNode(t.gen, parent, d, t.is_super)),
                       !.edges = @ \cup {NewEdge(parent, t.node_id)},
                       !.next_gen = IF ~d THEN Append(@, t.node_id) ELSE @,
                       !.node_id = @ + 1,
                       !.k = @ + 1,
                       !.read = @ + 1]
          [] OTHER -> t

\* generate_tree is entered: G holds the root, node_id = 1, current = [0];
\* no statement looks at the parameters before the loops do
TreeEntry ==
    /\ nodes = (0 :> NewNode(0, NoParent, FALSE, FALSE))
    /\ edges = {}
    /\ node_id = 1
    /\ current = <<0>>
    /\ next_gen = <<>>
    /\ gen = 1
    /\ pidx = 1
    /\ is_super = FALSE
    /\ newR = 0
    /\ k = 0
    /\ tpc = "gen_loop"
    /\ draws = <<>>
    /\ twin = ThisRun

\* generate_tree is called by the page, with the values of its sliders
TreeCall ==
    /\ Re \in {Rat(t, 10) : t \in TreeReTenths}
    /\ max_gen \in 0..MaxGen
    /\ superspreader_pct \in {0, 10}
    /\ vacc_pct \in {0, 20}
    /\ max_nodes \in 1..MaxBudget
    /\ TreeEntry

\* a negative generation count or a probability outside 0..100 percent
InvalidParameters ==
    \/ max_gen < 0
    \/ superspreader_pct \notin 0..100
    \/ vacc_pct \notin 0..100

\* generate_tree is called directly, with a parameter outside its domain
DirectTreeCall ==
    /\ Re \in {Rat(t, 10) : t \in TreeReTenths}
    /\ max_gen \in (-1)..MaxGen
    /\ superspreader_pct \in {10, 150}
    /\ vacc_pct \in {-10, 20}
    /\ max_nodes \in 1..MaxBudget
    /\ InvalidParameters
    /\ TreeEntry

\* for gen in range(1, max_gen + 1): next_gen = []
NextGeneration ==
    /\ tpc = "gen_loop"
    /\ GenerationsLeft(gen, max_gen)
    /\ next_gen' = <<>>
    /\ pidx' = 1
    /\ tpc' = "parent_loop"
    /\ draws' = draws
    /\ twin' = SecondRunStep(twin, draws')
    /\ UNCHANGED <<Re, max_gen, superspreader_pct, vacc_pct, max_nodes, nodes,
                   edges, node_id, current, gen, is_super, newR, k>>
    /\ UNCHANGED <<seirVars, reproVars, viewVars>>

\* the outer loop is exhausted: return G (the last line)
ReturnTree ==
    /\ tpc = "gen_loop"
    /\ ~GenerationsLeft(gen, max_gen)
    /\ tpc' = "return_end"
    /\ draws' = draws
    /\ twin' = SecondRunStep(twin, draws')
    /\ UNCHANGED <<Re, max_gen, superspreader_pct, vacc_pct, max_nodes, nodes,
                   edges, node_id, current, next_gen, gen, pidx, is_super,
                   newR, k>>
    /\ UNCHANGED <<seirVars, reproVars, viewVars>>

\* for parent in current: a vaccinated parent is skipped, any other draws
\* is_super and gets its offspring count
VisitParent ==
    /\ tpc = "parent_loop"
    /\ pidx <= Len(current)
    /\ IF nodes[current[pidx]].vacc
       THEN /\ pidx' = pidx + 1
            /\ UNCHANGED <<is_super, newR, k, tpc, draws>>
       ELSE /\ \E draw \in Draw(superspreader_pct) :
                 /\ is_super' = draw
                 /\ newR' = EffectiveR(Re, draw)
                 /\ draws' = Append(draws, SuperDraw(draw))
            /\ k' = 0
            /\ tpc' = "child_loop"
            /\ UNCHANGED pidx
    /\ twin' = SecondRunStep(twin, draws')
    /\ UNCHANGED <<Re, max_gen, superspreader_pct, vacc_pct, max_nodes, nodes,
                   edges, node_id, current, next_gen, gen>>
    /\ UNCHANGED <<seirVars, reproVars, viewVars>>

\* the parents of this generation are exhausted: current = next_gen
EndGeneration ==
    /\ tpc = "parent_loop"
    /\ pidx > Len(current)
    /\ current' = next_gen
    /\ gen' = gen + 1
    /\ tpc' = "gen_loop"
    /\ draws' = draws
    /\ twin' = SecondRunStep(twin, draws')
    /\ UNCHANGED <<Re, max_gen, superspreader_pct, vacc_pct, max_nodes, nodes,
                   edges, node_id, next_gen, pidx, is_super, newR, k>>
    /\ UNCHANGED <<seirVars, reproVars, viewVars>>

AddChild_SecondVaccDraw ==
    /\ tpc = "child_loop"
    /\ k < newR
    /\ ~BudgetExceeded(node_id, max_nodes)
    /\ \E vacc_status \in Draw(vacc_pct), kept \in Draw(vacc_pct) :
         /\ nodes' = nodes @@
              (node_id :> NewNode(gen, current[pidx], vacc_status, is_super))
         /\ edges' = edges \cup {NewEdge(current[pidx], node_id)}
         /\ next_gen' = IF ~kept THEN Append(next_gen, node_id)
                        ELSE next_gen
         /\ draws' = Append(draws, VaccDraw(vacc_status))
    /\ node_id' = node_id + 1
    /\ k' = k + 1
    /\ twin' = SecondRunStep(twin, draws')
    /\ UNCHANGED <<Re, max_gen, superspreader_pct, vacc_pct, max_nodes,
                   current, gen, pidx, is_super, newR, tpc>>
    /\ UNCHANGED <<seirVars, reproVars, viewVars>>

\* one iteration of "for _ in range(newR)" that passes the budget check
AddChild ==
    /\ tpc = "child_loop"
    /\ k < newR
    /\ ~BudgetExceeded(node_id, max_nodes)
    /\ \E vacc_status \in Draw(vacc_pct) :
         /\ nodes' = nodes @@
              (node_id :> NewNode(gen, current[pidx], vacc_status, is_super))
         /\ edges' = edges \cup {NewEdge(current[pidx], node_id)}
         /\ next_gen' = IF ~vacc_status THEN Append(next_gen, node_id)
                        ELSE next_gen
         /\ draws' = Append(draws, VaccDraw(vacc_status))
    /\ node_id' = node_id + 1
    /\ k' = k + 1
    /\ twin' = SecondRunStep(twin, draws')
    /\ UNCHANGED <<Re, max_gen, superspreader_pct, vacc_pct, max_nodes,
                   current, gen, pidx, is_super, newR, tpc>>
    /\ UNCHANGED <<seirVars, reproVars, viewVars>>

\* one iteration of "for _ in range(newR)" that fails the budget check:
\* return G from inside the loops
BudgetReturn ==
    /\ tpc = "child_loop"
    /\ k < newR
    /\ BudgetExceeded(node_id, max_nodes)
    /\ tpc' = "return_budget"
    /\ draws' = draws
    /\ twin' = SecondRunStep(twin, draws')
    /\ UNCHANGED <<Re, max_gen, superspreader_pct, vacc_pct, max_nodes, nodes,
                   edges, node_id, current, next_gen, gen, pidx, is_super,
                   newR, k>>
    /\ UNCHANGED <<seirVars, reproVars, viewVars>>

\* range(newR) is exhausted: on to the next parent
EndParent ==
    /\ tpc = "child_loop"
    /\ k >= newR
    /\ pidx' = pidx + 1
    /\ tpc' = "parent_loop"
    /\ draws' = draws
    /\ twin' = SecondRunStep(twin, draws')
    /\ UNCHANGED <<Re, max_gen, superspreader_pct, vacc_pct, max_nodes, nodes,
                   edges, node_id, current, next_gen, gen, is_super, newR, k>>
    /\ UNCHANGED <<seirVars, reproVars, viewVars>>

TreeStep ==
    \/ NextGeneration
    \/ ReturnTree
    \/ VisitParent
    \/ EndGeneration
    \/ AddChild
    \/ BudgetReturn
    \/ EndParent

\* generate_tree is not running
TreeIdle ==
    /\ max_gen = 0
    /\ superspreader_pct = 0
    /\ vacc_pct = 0
    /\ max_nodes = 0
    /\ nodes = (0 :> NewNode(0, NoParent, FALSE, FALSE))
    /\ edges = {}
    /\ node_id = 1
    /\ current = <<0>>
    /\ next_gen = <<>>
    /\ gen = 1
    /\ pidx = 1
    /\ is_super = FALSE
    /\ newR = 0
    /\ k = 0
    /\ tpc = "idle"
    /\ draws = <<>>
    /\ twin = ThisRun

----------------------------------------------------------------------------
(* The layouts of the tree  (pages/4_Spread_Visualization.py 236-257 and   *)
(* 361; pages/3_Vaccine_Impact.py 303-326, where the spacings and the      *)
(* scale are all 1).  A position of the hierarchical layout is [x, y]; a   *)
(* position of the radial layout is kept in polar form [radius, turn],     *)
(* standing for (radius * cos(2 pi turn), radius * sin(2 pi turn)).        *)

\* Values of the "Horizontal spacing" (0.2 to 3.0), "Vertical spacing" and
\* "Radial scale" (0.3 to 2.0) sliders the model tries.
HorizValues == {Rat(2, 10), Rat(1, 1)}

VertValues == {Rat(3, 10), Rat(1, 1)}

RadialScaleValues == {Rat(1, 1), Rat(2, 1)}

NodeOrder_Descending == [i \in 1..Cardinality(DOMAIN nodes) |->
                            Cardinality(DOMAIN nodes) - i]

\* "for n, d in G.nodes(data=True)": the nodes in insertion order, which is
\* the order of their ids 0, 1, 2, ...
NodeOrder == [i \in 1..Cardinality(DOMAIN nodes) |-> i - 1]

\* gens[g]: the nodes of generation g, in the order they were met
GenerationNodes(g) ==
    LET InGeneration(n) == nodes[n].generation = g
    IN  SelectSeq(NodeOrder, InGeneration)

\* enumerate(nodes): the 0-based index of n in the list
IndexIn(list, n) == (CHOOSE i \in 1..Len(list) : list[i] = n) - 1

Linspace_StepOverNum(start, stop, num, i) ==
    IF num = 1 THEN start
    ELSE RatAdd(start, RatMul(Rat(i, num), RatAdd(stop, RatNeg(start))))

\* np.linspace(start, stop, num)[i]: num = 1 gives [start]
Linspace(start, stop, num, i) ==
    IF num = 1 THEN start
    ELSE RatAdd(start, RatMul(Rat(i, num - 1), RatAdd(stop, RatNeg(start))))

\* np.linspace(start, stop, num, endpoint=False)[i]
LinspaceOpen(start, stop, num, i) ==
    RatAdd(start, RatMul(Rat(i, num), RatAdd(stop, RatNeg(start))))

\* pos[n] = (xs[i], -gen * vert)
layout_hierarchy(h, v) ==
    [n \in DOMAIN nodes |->
        LET g == nodes[n].generation
            members == GenerationNodes(g)
        IN  [x |-> Linspace(RatNeg(h), h, Len(members), IndexIn(members, n)),
             y |-> RatMul(Rat(-g, 1), v)]]

\* radius = (gen + 0.5) * radial_scale; the angle is 2 pi times the turn
layout_radial(scale) ==
    [n \in DOMAIN nodes |->
        LET g == nodes[n].generation
            members == GenerationNodes(g)
        IN  [radius |-> RatMul(Rat(2 * g + 1, 2), scale),
             turn |-> LinspaceOpen(Rat(0, 1), Rat(1, 1), Len(members),
                                   IndexIn(members, n))]]

\* pos = layout_hierarchy(G, horiz, vert)
LayoutHierarchy ==
    /\ tpc \in {"return_end", "return_budget"}
    /\ layout_mode = "none"
    /\ \E h \in HorizValues, v \in VertValues :
         /\ horiz' = h
         /\ vert' = v
         /\ pos' = layout_hierarchy(h, v)
    /\ layout_mode' = "Hierarchical"
    /\ UNCHANGED <<Re, radial_scale>>
    /\ UNCHANGED <<treeVars, seirVars, reproVars, growthVars, sessionVars>>

\* pos = layout_radial(G, radial_scale)
LayoutRadial ==
    /\ tpc \in {"return_end", "return_budget"}
    /\ layout_mode = "none"
    /\ \E scale \in RadialScaleValues :
         /\ radial_scale' = scale
         /\ pos' = layout_radial(scale)
    /\ layout_mode' = "Radial"
    /\ UNCHANGED <<Re, horiz, vert>>
    /\ UNCHANGED <<treeVars, seirVars, reproVars, growthVars, sessionVars>>

LayoutStep ==
    \/ LayoutHierarchy
    \/ LayoutRadial

\* no layout has run
LayoutIdle ==
    /\ layout_mode = "none"
    /\ horiz = Rat(1, 1)
    /\ vert = Rat(1, 1)
    /\ radial_scale = Rat(1, 1)
    /\ pos = <<>>

----------------------------------------------------------------------------
(* The growth series  (pages/2_Disease_Spread.py 60-63 with R0 as the     *)
(* multiplier, pages/3_Vaccine_Impact.py 135-140 with R0 and with Re,      *)
(* pages/4_Spread_Visualization.py 100-102 with Re)                        *)

\* Values of the multiplier a series is built with, in tenths.
GrowthTenths == {0, 1, 9, 10, 13, 15, 20, 30}

GrowthEntry_Sum(prev, m) == <<prev[1] * m[2] + m[1] * prev[2], prev[2] * m[2]>>

\* infected[-1] * R0
GrowthEntry(prev, m) == RatMul(prev, m)

\* infected = [1], the loop is about to start
GrowthStart ==
    /\ Re \in {Rat(t, 10) : t \in GrowthTenths}
    /\ generations \in 0..MaxGenerations
    /\ infected = <<Rat(1, 1)>>
    /\ growth_g = 1
    /\ gpc = "loop"

\* for g in range(1, generations + 1): infected.append(infected[-1] * R0)
GrowthAppend ==
    /\ gpc = "loop"
    /\ growth_g <= generations
    /\ infected' = Append(infected, GrowthEntry(Last(infected), Re))
    /\ growth_g' = growth_g + 1
    /\ UNCHANGED <<Re, generations, gpc>>
    /\ UNCHANGED <<treeVars, seirVars, reproVars, layoutVars, sessionVars>>

\* the range is exhausted: the list goes into the chart's DataFrame
GrowthDone ==
    /\ gpc = "loop"
    /\ growth_g > generations
    /\ gpc' = "charted"
    /\ UNCHANGED <<Re, generations, infected, growth_g>>
    /\ UNCHANGED <<treeVars, seirVars, reproVars, layoutVars, sessionVars>>

GrowthStep ==
    \/ GrowthAppend
    \/ GrowthDone

\* no growth series is being built
GrowthIdle ==
    /\ generations = 0
    /\ infected = <<Rat(1, 1)>>
    /\ growth_g = 1
    /\ gpc = "idle"

----------------------------------------------------------------------------
(* The generation counters of pages/4_Spread_Visualization.py (56-59,      *)
(* 87-97, 150-186).  The script runs from top to bottom after every        *)
(* interaction; st.session_state survives the runs; a widget that a run    *)
(* does not render loses its value.  A counter not yet in session_state    *)
(* is 0, the value its first read finds.                                   *)

\* max_gen = 8
PageMaxGen == 8

AnimatedView == "Animated Spread (Click to Advance)"

NodeTreeView == "Node Tree Spread"

SeirView == "SEIR Model"

Views == {AnimatedView, NodeTreeView, SeirView}

AnimationModes == {"Manual", "Auto-Play", "None"}

\* the script is not running: the page waits for the user, or the script
\* sits in time.sleep, which an interaction interrupts
Interruptible == rpc \in {"waiting", "sleep"}

\* min(max_gen, counter + 1)
NextGenerationCapped(counter) ==
    IF counter + 1 <= PageMaxGen THEN counter + 1 ELSE PageMaxGen

\* the first g of "for g in range(st.session_state.tree_gen, max_gen + 1)"
FirstOfRange(from, to) == from

\* the first run of the script in a new session
SessionStart ==
    /\ mode = AnimatedView
    /\ animation_mode = "Manual"
    /\ play = FALSE
    /\ clicked = FALSE
    /\ anim_gen = 0
    /\ tree_gen = 0
    /\ rpc = "run"

\* the user picks another view: the widgets of the view left are dropped
SelectMode ==
    /\ Interruptible
    /\ \E m \in Views \ {mode} : mode' = m
    /\ animation_mode' = "Manual"
    /\ play' = FALSE
    /\ clicked' = FALSE
    /\ rpc' = "run"
    /\ UNCHANGED <<anim_gen, tree_gen>>
    /\ UNCHANGED <<Re, treeVars, seirVars, reproVars, growthVars, layoutVars>>

\* the user picks another animation mode in the Node Tree view
SelectAnimation ==
    /\ Interruptible
    /\ mode = NodeTreeView
    /\ \E a \in AnimationModes \ {animation_mode} : animation_mode' = a
    /\ play' = FALSE
    /\ clicked' = FALSE
    /\ rpc' = "run"
    /\ UNCHANGED <<mode, anim_gen, tree_gen>>
    /\ UNCHANGED <<Re, treeVars, seirVars, reproVars, growthVars, layoutVars>>

\* the user checks or unchecks "Play"
TogglePlay ==
    /\ Interruptible
    /\ mode = NodeTreeView
    /\ animation_mode = "Auto-Play"
    /\ play' = ~play
    /\ rpc' = "run"
    /\ UNCHANGED <<mode, animation_mode, clicked, anim_gen, tree_gen>>
    /\ UNCHANGED <<Re, treeVars, seirVars, reproVars, growthVars, layoutVars>>

\* the user clicks "Next Generation" (Animated view, or Node Tree view in
\* Manual mode)
ClickNextGeneration ==
    /\ rpc = "waiting"
    /\ \/ mode = AnimatedView
       \/ mode = NodeTreeView /\ animation_mode = "Manual"
    /\ clicked' = TRUE
    /\ rpc' = "run"
    /\ UNCHANGED <<mode, animation_mode, play, anim_gen, tree_gen>>
    /\ UNCHANGED <<Re, treeVars, seirVars, reproVars, growthVars, layoutVars>>

\* a run of the script in the Animated view (87-97)
RunAnimatedView ==
    /\ rpc = "run"
    /\ mode = AnimatedView
    /\ anim_gen' = IF clicked THEN NextGenerationCapped(anim_gen) ELSE anim_gen
    /\ clicked' = FALSE
    /\ rpc' = "waiting"
    /\ UNCHANGED <<mode, animation_mode, play, tree_gen>>
    /\ UNCHANGED <<Re, treeVars, seirVars, reproVars, growthVars, layoutVars>>

\* a run of the script in the Node Tree view (150-186), up to the end of
\* the script or to time.sleep in the Auto-Play loop
RunNodeTreeView ==
    /\ rpc = "run"
    /\ mode = NodeTreeView
    /\ IF animation_mode = "Manual"
       THEN /\ tree_gen' = IF clicked THEN NextGenerationCapped(tree_gen)
                           ELSE tree_gen
            /\ rpc' = "waiting"
       ELSE IF animation_mode = "Auto-Play"
       THEN IF play /\ tree_gen <= PageMaxGen
            THEN /\ tree_gen' = FirstOfRange(tree_gen, PageMaxGen)
                 /\ rpc' = "sleep"
            ELSE /\ tree_gen' = tree_gen
                 /\ rpc' = "waiting"
       ELSE /\ tree_gen' = PageMaxGen
            /\ rpc' = "waiting"
    /\ clicked' = FALSE
    /\ UNCHANGED <<mode, animation_mode, play, anim_gen>>
    /\ UNCHANGED <<Re, treeVars, seirVars, reproVars, growthVars, layoutVars>>

\* a run of the script in the SEIR view: no counter is touched
RunSeirView ==
    /\ rpc = "run"
    /\ mode = SeirView
    /\ clicked' = FALSE
    /\ rpc' = "waiting"
    /\ UNCHANGED <<mode, animation_mode, play, anim_gen, tree_gen>>
    /\ UNCHANGED <<Re, treeVars, seirVars, reproVars, growthVars, layoutVars>>

\* time.sleep(0.65) is over: st.experimental_rerun() ends this run, inside
\* the first iteration of the loop, and starts the script again
AutoPlayRerun ==
    /\ rpc = "sleep"
    /\ rpc' = "run"
    /\ UNCHANGED <<mode, animation_mode, play, clicked, anim_gen, tree_gen>>
    /\ UNCHANGED <<Re, treeVars, seirVars, reproVars, growthVars, layoutVars>>

\* what the user does
UserStep ==
    \/ SelectMode
    \/ SelectAnimation
    \/ TogglePlay
    \/ ClickNextGeneration

\* what the script does by itself
ScriptStep ==
    \/ RunAnimatedView
    \/ RunNodeTreeView
    \/ RunSeirView
    \/ AutoPlayRerun

\* the page is not open
SessionIdle ==
    /\ mode = AnimatedView
    /\ animation_mode = "Manual"
    /\ play = FALSE
    /\ clicked = FALSE
    /\ anim_gen = 0
    /\ tree_gen = 0
    /\ rpc = "idle"

ViewIdle == GrowthIdle /\ LayoutIdle /\ SessionIdle

----------------------------------------------------------------------------
(* Specifications *)

ReproInit == ReproIdle /\ Re = Rat(0, 1) /\ TreeIdle /\ SeirIdle /\ ViewIdle

ReproNext == ReproStep

ReproSpec == ReproInit /\ [][ReproNext]_vars

SeirInit == SeirStart /\ ReproIdle /\ TreeIdle /\ ViewIdle

SeirNext == SeirStep

SeirSpec == SeirInit /\ [][SeirNext]_vars

TreeInit == TreeCall /\ ReproIdle /\ SeirIdle /\ ViewIdle

TreeNext == TreeStep

TreeSpec == TreeInit /\ [][TreeNext]_vars

DirectTreeInit == DirectTreeCall /\ ReproIdle /\ SeirIdle /\ ViewIdle

DirectTreeSpec == DirectTreeInit /\ [][TreeNext]_vars

GrowthInit ==
    GrowthStart /\ ReproIdle /\ TreeIdle /\ SeirIdle /\ LayoutIdle /\ SessionIdle

SessionInit ==
    /\ SessionStart
    /\ Re = Rat(0, 1)
    /\ ReproIdle /\ TreeIdle /\ SeirIdle /\ GrowthIdle /\ LayoutIdle

SessionNext ==
    \/ UserStep
    \/ ScriptStep

SessionSpec == SessionInit /\ [][SessionNext]_vars

\* Streamlit runs the script whenever a run is due, and a sleep ends; the
\* user need not do anything
SessionFairSpec == SessionSpec /\ WF_vars(ScriptStep)

\* the page lays out the tree generate_tree returned
LayoutNext ==
    \/ TreeStep
    \/ LayoutStep

LayoutSpec == TreeInit /\ [][LayoutNext]_vars

GrowthNext == GrowthStep

GrowthSpec == GrowthInit /\ [][GrowthNext]_vars

\* generate_tree is one synchronous call: it keeps running until it returns
TreeFairSpec == TreeSpec /\ WF_vars(TreeNext)

Returned == tpc \in {"return_end", "return_budget"}

Children(n) == {e[2] : e \in {x \in edges : x[1] = n}}

Parents(n) == {e[1] : e \in {x \in edges : x[2] = n}}

----------------------------------------------------------------------------
(* Claims about generate_tree *)

NodeIds == DOMAIN nodes

\* C1 (as claimed): at every point of generate_tree, and in the returned
\* tree, the graph holds at most max_nodes nodes, the root included.
C1_NodeCountWithinBudget == Cardinality(NodeIds) <= max_nodes

\* C2: at every point of generate_tree, and in the returned tree, no
\* vaccinated node is the source of an edge.
C2_VaccinatedHaveNoChildren == \A e \in edges : ~nodes[e[1]].vacc

\* C2 witness: a returned tree in which a vaccinated node sits at a generation
\* that was expanded further (a later generation holds a node).
C2_Witness ==
    /\ tpc = "return_end"
    /\ \E n \in NodeIds, m \in NodeIds :
         /\ nodes[n].vacc
         /\ nodes[m].generation > nodes[n].generation

\* A call with superspreader probability 0 and vaccination probability 0
\* that ran through all its generations (the budget check never fired).
DeterministicRunEnded ==
    /\ tpc = "return_end"
    /\ superspreader_pct = 0
    /\ vacc_pct = 0

C4_SuperDescribesOwnSpread ==
    (tpc = "return_end" /\ Re[1] % Re[2] = 0) =>
        \A n \in NodeIds :
            (~nodes[n].vacc /\ nodes[n].generation < max_gen) =>
                Cardinality(Children(n)) =
                    Max(1, PyRoundOfProduct(Re, SuperMultiplier(nodes[n].super)))

BudgetHit == tpc = "child_loop" /\ k < newR /\ node_id > max_nodes

C13_ZeroGenerationsOnlyRoot ==
    max_gen = 0 =>
        /\ NodeIds = {0}
        /\ nodes[0].generation = 0
        /\ ~nodes[0].vacc
        /\ ~nodes[0].super
        /\ edges = {}

\* C13 witness: a returned call with max_gen = 0, a supercritical Re and
\* both probabilities positive.
C13_Witness ==
    /\ Returned
    /\ max_gen = 0
    /\ RatLT(Rat(1, 1), Re)
    /\ superspreader_pct > 0
    /\ vacc_pct > 0

\* C18: in a tree returned without the budget check firing, every
\* unvaccinated node at a generation below max_gen has at least one child,
\* for every Re; so with vaccination probability 0 such a tree holds a node
\* at every generation 0..max_gen.
C18_NoDieOutWithoutVaccination ==
    tpc = "return_end" =>
        /\ \A n \in NodeIds :
             (~nodes[n].vacc /\ nodes[n].generation < max_gen) =>
                 Children(n) # {}
        /\ vacc_pct = 0 =>
               \A g \in 0..max_gen : \E n \in NodeIds : nodes[n].generation = g

\* C18 witness: a sub-critical call (Re < 1) that ran through two or more
\* generations and reached the last one.
C18_Witness ==
    /\ tpc = "return_end"
    /\ RatLT(Re, Rat(1, 1))
    /\ max_gen >= 2
    /\ \E n \in NodeIds : nodes[n].generation = max_gen

VaccDrawPositions == {p \in 1..Len(draws) : draws[p].kind = "vacc"}

SuperDrawPositions == {p \in 1..Len(draws) : draws[p].kind = "super"}

\* the position in draws of the j-th vaccination draw
PositionOfVaccDraw(j) ==
    CHOOSE p \in VaccDrawPositions :
        Cardinality({q \in VaccDrawPositions : q <= p}) = j

\* the nodes whose offspring loop was entered
ExpandedParents ==
    Cardinality({n \in NodeIds : Children(n) # {}})
    + (IF tpc \in {"child_loop", "return_budget"} /\ k = 0 THEN 1 ELSE 0)

\* C16: at every point of generate_tree, and when it returns, a second call
\* with the same parameters that consumes the same sequence of draws is in
\* exactly the same state (same nodes, attributes, edges and frontier, same
\* number of draws consumed); and the draws are consumed in a fixed order:
\* one superspreader draw per expanded parent, followed by one vaccination
\* draw per child created for it, the j-th vaccination draw being that of
\* node j.
C16_DeterminedByDraws ==
    /\ twin = ThisRun
    /\ Cardinality(SuperDrawPositions) = ExpandedParents
    /\ Cardinality(VaccDrawPositions) = Cardinality(NodeIds) - 1
    /\ \A n \in NodeIds \ {0} :
         LET p == PositionOfVaccDraw(n)
         IN  /\ draws[p].value = nodes[n].vacc
             /\ \E q \in SuperDrawPositions :
                  /\ q < p
                  /\ \A r \in (q + 1)..(p - 1) :
                       /\ r \in VaccDrawPositions
                       /\ \E m \in NodeIds \ {0} :
                            /\ PositionOfVaccDraw(m) = r
                            /\ nodes[m].parent = nodes[n].parent
                  /\ draws[q].value = nodes[n].super

\* C16 witness: a returned call that consumed five or more draws, among them
\* a superspreader draw and a vaccination draw that came out true.
C16_Witness ==
    /\ Returned
    /\ Len(draws) >= 5
    /\ \E p \in SuperDrawPositions : draws[p].value
    /\ \E p \in VaccDrawPositions : draws[p].value

\* C12 (as claimed, for generate_tree): a call with a parameter outside its
\* domain (a negative generation count, a probability outside 0..100 percent)
\* is rejected before any result is computed: it never returns a graph.
C12_InvalidParametersRejected == InvalidParameters => ~Returned

----------------------------------------------------------------------------
(* Claims about the reproduction numbers *)

\* the pages whose Re is handed to the growth, SEIR and tree simulations
HandsReOn == page \in {"vaccine_impact", "spread_visualization"}

\* C7 (as claimed): the Re handed to the simulations is never below 0.1, in
\* the single-coverage variant as in the composite variant.
C7_ReNeverBelowFloor == HandsReOn => RatLE(Rat(1, 10), Re)

\* coverage equals the herd immunity threshold exactly
AtThreshold == RatEQ(Rat(coverage, 1), herd_threshold)

CoverageReachesThreshold == RatLE(herd_threshold, Rat(coverage, 1))

ReBelowOne == RatLT(Re, Rat(1, 1))

\* a page that computes a threshold ran with R0 > 1
ThresholdPageRan ==
    /\ page \in {"herd_immunity", "vaccine_impact"}
    /\ RatLT(Rat(1, 1), R0)

\* the two statuses as the pages compute them
ThresholdStatus ==
    IF page = "vaccine_impact" THEN above_threshold
    ELSE CoverageReachesThreshold

ControlStatus ==
    IF page = "herd_immunity" THEN outbreak_controlled ELSE ReBelowOne

\* C8 (as claimed): for R0 > 1 and every coverage, coverage >= threshold
\* holds exactly when Re < 1.
C8_ThresholdIffReBelowOne ==
    ThresholdPageRan => (ThresholdStatus <=> ControlStatus)

\* C8 (amended): for R0 > 1 and every coverage other than the threshold
\* itself, coverage >= threshold holds exactly when Re < 1.
C8_ThresholdIffReBelowOneOffThreshold ==
    (ThresholdPageRan /\ ~AtThreshold) => (ThresholdStatus <=> ControlStatus)

\* C8 witness: 3_Vaccine_Impact ran with a coverage above the threshold and
\* below 100%, and Re is below 1.
C8_Witness ==
    /\ page = "vaccine_impact"
    /\ RatLT(Rat(1, 1), R0)
    /\ ~AtThreshold
    /\ above_threshold
    /\ ReBelowOne
    /\ coverage < 100

\* C15: for every R0 > 1 the threshold a page computes is exactly
\* 1 - 1/R0 (as a percentage: 100 * (R0 - 1) / R0), lies strictly between 0
\* and 100 percent, and is strictly increasing in R0: every larger R0 of the
\* slider has a strictly larger threshold and every smaller R0 above 1 a
\* strictly smaller one.
C15_ThresholdExactAndIncreasing ==
    ThresholdPageRan =>
        /\ RatEQ(herd_threshold, Rat(100 * (R0[1] - R0[2]), R0[1]))
        /\ RatLT(Rat(0, 1), herd_threshold)
        /\ RatLT(herd_threshold, Rat(100, 1))
        /\ \A r \in SliderR0Tenths :
             /\ RatLT(R0, Rat(r, 10)) =>
                  RatLT(herd_threshold, HerdThresholdPercent(Rat(r, 10)))
             /\ (RatLT(Rat(r, 10), R0) /\ r > 10) =>
                  RatLT(HerdThresholdPercent(Rat(r, 10)), herd_threshold)

\* C15 witness: 1_Herd_Immunity ran with an R0 inside the slider's range
\* whose threshold is above 90 percent.
C15_Witness ==
    /\ page = "herd_immunity"
    /\ RatLT(Rat(1, 1), R0)
    /\ RatLT(R0, Rat(20, 1))
    /\ RatLT(Rat(90, 1), herd_threshold)

----------------------------------------------------------------------------
(* Claims about the SEIR loop *)

SeirRan == spc # "idle"

DaysSoFar == 1..Len(S)

\* C9: on every day computed, S + E + I + R equals N.
C9_PopulationConserved ==
    SeirRan =>
        /\ Len(E) = Len(S) /\ Len(I) = Len(S) /\ Len(R) = Len(S)
        /\ \A t \in DaysSoFar : S[t] + E[t] + I[t] + R[t] = N

\* C9 witness: a finished run in which the epidemic moved population
\* through all four compartments.
C9_Witness ==
    /\ spc = "charted"
    /\ Last(R) > 1000
    /\ Last(S) < S0 - 1000
    /\ Last(E) # E0
    /\ Last(I) # I0

\* C10 (as claimed): for Re between 0.1 and 20, S, E, I and R are
\* non-negative on every day.
C10_AlwaysNonNegative ==
    (SeirRan /\ RatLE(Rat(1, 10), Re) /\ RatLE(Re, Rat(20, 1))) =>
        \A t \in DaysSoFar : S[t] >= 0 /\ E[t] >= 0 /\ I[t] >= 0 /\ R[t] >= 0

\* beta = Re / infectious_period is at most 1
BetaAtMostOne == RatLE(Re, Rat(infectious_period, 1))

\* C10 (amended): whenever Re <= infectious_period (beta <= 1), S, E, I and
\* R are non-negative on every day.
C10_NonNegativeWhenBetaAtMostOne ==
    (SeirRan /\ BetaAtMostOne) =>
        \A t \in DaysSoFar : S[t] >= 0 /\ E[t] >= 0 /\ I[t] >= 0 /\ R[t] >= 0

\* C10 witness: a finished supercritical run with beta <= 1 in which more
\* than a thousand persons were infected.
C10_Witness ==
    /\ spc = "charted"
    /\ BetaAtMostOne
    /\ RatLT(Rat(1, 1), Re)
    /\ Last(S) < S0 - 1000

----------------------------------------------------------------------------
(* Claims about the growth series *)

RECURSIVE Pow(_, _)
Pow(b, e) == IF e = 0 THEN 1 ELSE b * Pow(b, e - 1)

IsPrefix(s, t) == Len(s) <= Len(t) /\ \A i \in 1..Len(s) : s[i] = t[i]

\* the series is complete
GrowthCharted == gpc = "charted"

\* C11: the growth series for multiplier m and n generations always starts
\* with 1 and holds m^j at entry j (numerator and denominator to the power
\* j), it has n + 1 entries when complete (so [1] for n = 0, and
\* [1, 2, 4, 8, 16, 32] for m = 2, n = 5), and every step only appends to
\* it, the new entry being m times the previous last one.
C11_GrowthSeriesIsPowers ==
    /\ [](/\ infected[1] = Rat(1, 1)
          /\ Len(infected) <= generations + 1
          /\ \A j \in 0..(Len(infected) - 1) :
               infected[j + 1] = Rat(Pow(Re[1], j), Pow(Re[2], j))
          /\ GrowthCharted => Len(infected) = generations + 1
          /\ (GrowthCharted /\ Re = Rat(20, 10)) =>
               \A j \in 0..generations :
                   RatEQ(infected[j + 1], Rat(Pow(2, j), 1)))
    /\ [][/\ IsPrefix(infected, infected')
          /\ Len(infected') > Len(infected) =>
               /\ Len(infected') = Len(infected) + 1
               /\ Last(infected') = Rat(Last(infected)[1] * Re[1],
                                         Last(infected)[2] * Re[2])]_vars

\* C11 witness: a complete series of five or more generations for the
\* multiplier 2.
C11_Witness ==
    /\ GrowthCharted
    /\ generations >= 5
    /\ Re = Rat(20, 10)

----------------------------------------------------------------------------
(* Claims about the layouts *)

GenerationsPresent == {nodes[n].generation : n \in NodeIds}

NodesOfGeneration(g) == {n \in NodeIds : nodes[n].generation = g}

\* the nodes of n's generation created before n
EarlierSiblings(n) ==
    {m \in NodesOfGeneration(nodes[n].generation) : m < n}

\* slot j of count evenly spaced points from -horiz to +horiz, count >= 2
SlotX(j, count) ==
    RatAdd(RatNeg(horiz), RatMul(Rat(2 * j, count - 1), horiz))

SharedY(g) ==
    \A n \in NodesOfGeneration(g) :
        RatEQ(pos[n].y, Rat(-g * vert[1], vert[2]))

DistinctX(g) ==
    \A n \in NodesOfGeneration(g), m \in NodesOfGeneration(g) :
        n # m => ~RatEQ(pos[n].x, pos[m].x)

MinXIsMinusHoriz(g) ==
    /\ \E n \in NodesOfGeneration(g) : RatEQ(pos[n].x, RatNeg(horiz))
    /\ \A n \in NodesOfGeneration(g) : RatLE(RatNeg(horiz), pos[n].x)

MaxXIsPlusHoriz(g) ==
    /\ \E n \in NodesOfGeneration(g) : RatEQ(pos[n].x, horiz)
    /\ \A n \in NodesOfGeneration(g) : RatLE(pos[n].x, horiz)

EvenlySpacedX(g) ==
    LET count == Cardinality(NodesOfGeneration(g))
    IN  count >= 2 =>
            \A n \in NodesOfGeneration(g) :
                \E j \in 0..(count - 1) : RatEQ(pos[n].x, SlotX(j, count))

LaidOutHierarchical == layout_mode = "Hierarchical"

\* C14 (as claimed): the hierarchical layout places, for every generation g
\* with k >= 1 nodes, all k nodes at y = -g * vert and at k pairwise
\* distinct, evenly spaced x whose minimum is -horiz and whose maximum is
\* +horiz.
C14_EveryGenerationSpansBothEnds ==
    LaidOutHierarchical =>
        \A g \in GenerationsPresent :
            /\ SharedY(g)
            /\ DistinctX(g)
            /\ EvenlySpacedX(g)
            /\ MinXIsMinusHoriz(g)
            /\ MaxXIsPlusHoriz(g)

\* C14 (amended): the hierarchical layout places, for every generation g,
\* all its nodes at y = -g * vert; a generation of k >= 2 nodes at k pairwise
\* distinct, evenly spaced x whose minimum is -horiz and whose maximum is
\* +horiz; and the node of a one-node generation (the root included) at
\* x = -horiz.
C14_SpansBothEndsFromTwoNodes ==
    LaidOutHierarchical =>
        \A g \in GenerationsPresent :
            /\ SharedY(g)
            /\ DistinctX(g)
            /\ EvenlySpacedX(g)
            /\ MinXIsMinusHoriz(g)
            /\ Cardinality(NodesOfGeneration(g)) >= 2 => MaxXIsPlusHoriz(g)
            /\ Cardinality(NodesOfGeneration(g)) = 1 =>
                   \A n \in NodesOfGeneration(g) :
                       RatEQ(pos[n].x, RatNeg(horiz))

\* C14 witness: a hierarchical layout, with a horizontal spacing other than
\* 1, of a tree with a generation of three or more nodes and a one-node
\* generation below the root.
C14_Witness ==
    /\ LaidOutHierarchical
    /\ horiz # Rat(1, 1)
    /\ \E g \in GenerationsPresent : Cardinality(NodesOfGeneration(g)) >= 3
    /\ \E g \in GenerationsPresent :
         g > 0 /\ Cardinality(NodesOfGeneration(g)) = 1

\* C17: once a layout ran, pos holds exactly one position for every node of
\* the tree and for nothing else, and within a generation a node created
\* earlier sits in an earlier slot: the node with i earlier siblings is in
\* slot i, which in the hierarchical layout gives it a strictly smaller x
\* than every later sibling, and in the radial layout the angle 2 pi i / k,
\* strictly smaller than every later sibling's.
C17_OnePositionEachInCreationOrder ==
    layout_mode # "none" =>
        /\ DOMAIN pos = NodeIds
        /\ \A n \in NodeIds :
             LET count == Cardinality(NodesOfGeneration(nodes[n].generation))
                 i == Cardinality(EarlierSiblings(n))
             IN  IF LaidOutHierarchical
                 THEN /\ count >= 2 => RatEQ(pos[n].x, SlotX(i, count))
                      /\ \A m \in EarlierSiblings(n) :
                           RatLT(pos[m].x, pos[n].x)
                 ELSE /\ RatEQ(pos[n].turn, Rat(i, count))
                      /\ \A m \in EarlierSiblings(n) :
                           RatLT(pos[m].turn, pos[n].turn)

\* C17 witness: a radial layout, with a scale other than 1, of a tree with a
\* generation of three or more nodes.
C17_Witness ==
    /\ layout_mode = "Radial"
    /\ radial_scale # Rat(1, 1)
    /\ \E g \in GenerationsPresent : Cardinality(NodesOfGeneration(g)) >= 3

----------------------------------------------------------------------------
(* Claims about the generation counter of the Node Tree view *)

\* Auto-Play is selected in the Node Tree view and "Play" is checked
AutoPlayOn ==
    /\ mode = NodeTreeView
    /\ animation_mode = "Auto-Play"
    /\ play

\* C19 (as claimed): under every sequence of clicks, mode changes and reruns
\* tree_gen stays within 0..8 and never decreases; and from every point at
\* which Auto-Play is on with "Play" checked, tree_gen reaches 8 unless the
\* user turns Auto-Play off first.
C19_AutoPlayReachesMaxGen ==
    /\ [](tree_gen \in 0..PageMaxGen)
    /\ [][tree_gen' >= tree_gen]_vars
    /\ AutoPlayOn ~> (tree_gen = PageMaxGen \/ ~AutoPlayOn)

====
